---- MODULE Spec2Model ----
(***************************************************************************)
(* Obligation / ledger synchronisation of vibe-financas-pro: the handlers  *)
(* of src/pages/Payables.tsx, src/pages/Receivables.tsx,                   *)
(* src/hooks/useReceivableActions.ts and the receivable edit form.         *)
(*                                                                         *)
(* Every handler is an async function: its synchronous prefix is one step  *)
(* (it captures the `transactions` / obligations of the current render),   *)
(* and every awaited store call is one further step that either applies    *)
(* the call or throws into the handler's catch block.                      *)
(*                                                                         *)
(* A handler can be invoked on every obligation of the list: which of the  *)
(* row's buttons is rendered is decided by the row, not by the handler,    *)
(* and the rendered row may be older than the store.  Several handlers may *)
(* be awaiting at once: nothing in the handlers waits for one another.     *)
(***************************************************************************)
EXTENDS Integers, Sequences, FiniteSets, TLC

\* ------------------------------------------------------------------ bounds
MaxIds == 2
MaxNow == 5
MaxOps == 2
MaxFailures == 1
MaxDueDay == 9
MaxTodayDay == 1
MaxRows == 3
MaxDeletes == 2

Kinds == {"payable", "receivable"}
Ids == 1..MaxIds
Slots == 1..MaxOps
NoAccount == ""
Accounts == {"acc1"}
AccountOpts == Accounts \cup {NoAccount}
Values == {10, 25}
NoDate == 0
NoParent == 0

\* instants are counted in half days: a day is 24 * 60 * 60 * 1000 ms
TicksPerDay == 2
DueSoonDays == 7
SevenDaysMs == DueSoonDays * TicksPerDay
DueDates == 0..(MaxDueDay * TicksPerDay + 1)
Todays == 0..(MaxTodayDay * TicksPerDay + 1)
NoStatus == ""

VARIABLES
  obligations,          \* payableAccounts / receivableAccounts of the store
  transactions,         \* the ledger, in store order
  nextTxId,             \* id the store gives the next ledger entry
  now,                  \* the clock read by new Date(): it advances with every user event
  ops,                  \* handlers that are awaiting a store call
  paymentDialogOpen,    \* Payables.tsx state
  selectedPayable,
  selectedAccountId,
  isAccountDialogOpen,  \* Receivables.tsx state
  receivableForPayment,
  isFormOpen,
  editingReceivable,
  report,               \* what the handler that finished in the last step reported
  failures,             \* store calls that have failed so far
  overlap,              \* a user event has arrived while a handler was awaiting a store call
  statusArg,            \* the record a list row is rendered for: kind, settled flag, dueDate
  today,                \* the instant new Date() gives at that render
  status,               \* what getStatus returned for it
  badge,                \* what getStatusBadge of Payables.tsx rendered for it
  listKind,             \* the page that is mounted: its list shows the obligations of that kind
  filters,              \* PayablesList / ReceivablesList state
  sortField,
  sortDirection,
  selectedIds

vars == <<obligations, transactions, nextTxId, now, ops, paymentDialogOpen,
          selectedPayable, selectedAccountId, isAccountDialogOpen,
          receivableForPayment, isFormOpen, editingReceivable, report,
          failures, overlap, statusArg, today, status, badge,
          listKind, filters, sortField, sortDirection, selectedIds>>

\* ------------------------------------------------------------------ data
NoObl ==
  [id |-> 0, counterpartyId |-> "", categoryId |-> "", accountId |-> NoAccount,
   value |-> 0, observations |-> "", settled |-> FALSE, settledDate |-> NoDate,
   parentId |-> NoParent, dueDate |-> 0, installmentType |-> ""]

NoTx ==
  [id |-> 0, type |-> "", clientSupplierId |-> "", categoryId |-> "",
   accountId |-> NoAccount, value |-> 0, paymentDate |-> NoDate,
   observations |-> "", sourceType |-> "", sourceId |-> 0]

ManualTx ==
  [id |-> 1, type |-> "receita", clientSupplierId |-> "client1",
   categoryId |-> "receita-cat", accountId |-> "acc1", value |-> 10,
   paymentDate |-> 1, observations |-> "", sourceType |-> "manual",
   sourceId |-> 0]

InitialObligation(kind, id) ==
  [id |-> id,
   counterpartyId |-> IF kind = "payable"
                      THEN <<"supplier1", "supplier2", "supplier3", "supplier2">>[id]
                      ELSE <<"client1", "client2", "client3", "client2">>[id],
   categoryId |-> IF kind = "payable"
                  THEN <<"despesa-cat", "despesa-cat", "despesa-cat2", "despesa-cat3">>[id]
                  ELSE <<"receita-cat", "receita-cat", "receita-cat2", "receita-cat3">>[id],
   accountId |-> <<NoAccount, "acc1", "acc1", "acc1">>[id],
   value |-> <<10, 25, 10, 25>>[id],
   observations |-> <<"", "obs", "obs", "">>[id],
   settled |-> FALSE,
   settledDate |-> NoDate,
   \* payables: 2 (and 3, 4) are instalments of 1; receivables: 1 and 2 are
   \* instalments of 3
   parentId |-> IF kind = "payable" THEN <<NoParent, 1, 1, 1>>[id]
                ELSE <<3, 3, NoParent, NoParent>>[id],
   \* due at 00:00 of day 0, day 3, day 9 and day 3
   dueDate |-> <<0, 3 * TicksPerDay, 9 * TicksPerDay, 3 * TicksPerDay>>[id],
   installmentType |-> <<"unico", "parcelado", "recorrente", "parcelado">>[id]]

\* the selection a handleDeleteSelected was confirmed on, the ids whose own
\* confirm was accepted, the rows the list showed and the selected ids that
\* were settled; empty for a handler started from a row's button
NoBulk == [ids |-> <<>>, confirmed |-> {}, view |-> <<>>, settled |-> {}]

IdleOp ==
  [pc |-> "idle", op |-> "", kind |-> "", id |-> 0, arg |-> NoObl,
   txs |-> <<>>, date |-> NoDate, acc |-> NoAccount, repeat |-> FALSE,
   retry |-> FALSE, began |-> 0, bulk |-> NoBulk]

NoReport ==
  [op |-> "", kind |-> "", id |-> 0, outcome |-> "", stage |-> "",
   arg |-> NoObl, txs |-> <<>>, date |-> NoDate, acc |-> NoAccount,
   repeat |-> FALSE, retry |-> FALSE, began |-> 0, bulk |-> NoBulk]

\* ------------------------------------------------------------------ stores
\* obligations.find(o => o.id === id)
GetObligation(obs, kind, id) ==
  IF id \in DOMAIN obs[kind] THEN obs[kind][id] ELSE NoObl

\* update(id, partialFields): the fields given replace the stored ones
updateObligation(obs, kind, id, fields) ==
  IF id \in DOMAIN obs[kind]
  THEN [obs EXCEPT ![kind][id] =
          [f \in DOMAIN @ |-> IF f \in DOMAIN fields THEN fields[f] ELSE @[f]]]
  ELSE obs

deleteObligation(obs, kind, id) ==
  [obs EXCEPT ![kind] = [i \in (DOMAIN @) \ {id} |-> @[i]]]

addTransaction(txs, id, data) ==
  Append(txs, [data EXCEPT !.id = id])

deleteTransaction(txs, id) ==
  SelectSeq(txs, LAMBDA t : t.id # id)

\* the lookup by sourceId alone: the sourceType test left out
FindTransaction_Mut(txs, kind, id) ==
  LET hits == {n \in 1..Len(txs) : txs[n].sourceType \in Kinds /\ txs[n].sourceId = id}
  IN IF hits = {} THEN NoTx
     ELSE txs[CHOOSE n \in hits : \A m \in hits : n <= m]

\* transactions.find(t => t.sourceType === kind && t.sourceId === id)
FindTransaction(txs, kind, id) ==
  LET hits == {n \in 1..Len(txs) : txs[n].sourceType = kind /\ txs[n].sourceId = id}
  IN IF hits = {} THEN NoTx
     ELSE txs[CHOOSE n \in hits : \A m \in hits : n <= m]

Linked(txs, kind, id) ==
  {n \in 1..Len(txs) : txs[n].sourceType = kind /\ txs[n].sourceId = id}


\* ------------------------------------------------------------------ handlers' common parts
storeVars == <<obligations, transactions, nextTxId>>
dialogVars == <<paymentDialogOpen, selectedPayable, selectedAccountId,
                isAccountDialogOpen, receivableForPayment>>
formVars == <<isFormOpen, editingReceivable>>
statusVars == <<statusArg, today, status, badge>>
listVars == <<listKind, filters, sortField, sortDirection, selectedIds>>

InFlight == {s \in Slots : ops[s].pc # "idle"}
HasFree == InFlight # Slots
FreeSlot == CHOOSE s \in Slots \ InFlight : \A t \in Slots \ InFlight : s <= t

\* the list's buttons are behind the modal dialogs while one is open
ListEnabled == ~paymentDialogOpen /\ ~isAccountDialogOpen

TxType(kind) == IF kind = "payable" THEN "despesa" ELSE "receita"

ReportOf(o, outcome) ==
  [op |-> o.op, kind |-> o.kind, id |-> o.id, outcome |-> outcome, stage |-> o.pc,
   arg |-> o.arg, txs |-> o.txs, date |-> o.date, acc |-> o.acc, repeat |-> o.repeat,
   retry |-> o.retry, began |-> o.began, bulk |-> o.bulk]

\* the handler is invoked, with nothing else running, right after an invocation
\* of the same operation on the same obligation threw at one of `stages`
IsRetry(op, kind, id, stages) ==
  /\ InFlight = {}
  /\ report.op = op /\ report.outcome = "error" /\ report.stage \in stages
  /\ report.kind = kind /\ report.id = id

\* a Settle re-run after a Settle that threw at addTransaction, on an obligation
\* that is stored as settled and has no linked ledger entry
IsSettleRetry(kind, id) ==
  /\ IsRetry("settle", kind, id, {"settle_add", "confirm_add"})
  /\ GetObligation(obligations, kind, id).settled
  /\ Linked(transactions, kind, id) = {}

\* a click: the clock has moved on since the previous one
UserEvent ==
  /\ now < MaxNow
  /\ now' = now + 1
  /\ overlap' = (overlap \/ InFlight # {})

Begin(rec) ==
  /\ HasFree
  /\ UserEvent
  /\ ops' = [ops EXCEPT ![FreeSlot] = rec @@ [began |-> now', bulk |-> NoBulk]]
  /\ report' = NoReport

Goto(s, pc) ==
  /\ ops' = [ops EXCEPT ![s].pc = pc]
  /\ report' = NoReport

Finish(s, outcome) ==
  /\ ops' = [ops EXCEPT ![s] = IdleOp]
  /\ report' = ReportOf(ops[s], outcome)

\* ------------------------------------------------------------------ Settle
\* the account check left out: every obligation goes straight to the store calls
NeedsAccount_Mut(obligation) == FALSE

\* if (!payable.accountId) / if (!receivable.accountId)
NeedsAccount(obligation) == obligation.accountId = NoAccount

\* the argument of addTransaction in handleMarkAsPaid and handleConfirmPayment
PayableTransactionData(payable, paidDate, accountId) ==
  [id |-> 0, type |-> "despesa", clientSupplierId |-> payable.counterpartyId,
   categoryId |-> payable.categoryId, accountId |-> accountId,
   value |-> payable.value, paymentDate |-> paidDate,
   observations |-> payable.observations, sourceType |-> "payable",
   sourceId |-> payable.id]

\* the argument of addTransaction in handleMarkAsReceived: it has no accountId
ReceivableTransactionData(receivable, receivedDate) ==
  [id |-> 0, type |-> "receita", clientSupplierId |-> receivable.counterpartyId,
   categoryId |-> receivable.categoryId, accountId |-> NoAccount,
   value |-> receivable.value, paymentDate |-> receivedDate,
   observations |-> receivable.observations, sourceType |-> "receivable",
   sourceId |-> receivable.id]

\* the lookup replaced by a test of the stored flag: a settled obligation is
\* taken to have its ledger entry already
SettleBranch_Mut(txs, kind, id) ==
  IF GetObligation(obligations, kind, id).settled
  THEN "settle_update_only" ELSE "settle_update"

\* const existingTransaction = transactions.find(...); if (existingTransaction)
SettleBranch(txs, kind, id) ==
  IF FindTransaction(txs, kind, id) # NoTx THEN "settle_update_only" ELSE "settle_update"

\* the synchronous prefix of handleMarkAsPaid (past the account check) and of
\* handleMarkAsReceived: the lookup in the rendered `transactions`, new Date()
StartSettle(kind, arg) ==
  /\ Begin([pc |-> SettleBranch(transactions, kind, arg.id), op |-> "settle",
            kind |-> kind, id |-> arg.id, arg |-> arg, txs |-> transactions,
            date |-> now, acc |-> arg.accountId, repeat |-> FALSE,
            retry |-> IsSettleRetry(kind, arg.id)])
  /\ UNCHANGED <<storeVars, formVars, failures>>

NeedsAccountReport(kind, arg) ==
  [NoReport EXCEPT !.op = "settle", !.kind = kind, !.id = arg.id,
                   !.outcome = "needsAccount", !.stage = "click", !.arg = arg,
                   !.txs = transactions]

handleMarkAsPaid(id) ==
  /\ UNCHANGED <<statusVars, listVars>>
  /\ ListEnabled
  /\ id \in DOMAIN obligations["payable"]
  /\ LET payable == obligations["payable"][id] IN
       \/ /\ NeedsAccount(payable)
          /\ selectedPayable' = payable
          /\ paymentDialogOpen' = TRUE
          /\ report' = NeedsAccountReport("payable", payable)
          /\ UserEvent
          /\ UNCHANGED <<storeVars, ops, selectedAccountId, isAccountDialogOpen,
                         receivableForPayment, formVars, failures>>
       \/ /\ ~NeedsAccount(payable)
          /\ StartSettle("payable", payable)
          /\ UNCHANGED dialogVars

handleMarkAsReceivedClick(id) ==
  /\ UNCHANGED <<statusVars, listVars>>
  /\ ListEnabled
  /\ id \in DOMAIN obligations["receivable"]
  /\ LET receivable == obligations["receivable"][id] IN
       \/ /\ NeedsAccount(receivable)
          /\ receivableForPayment' = receivable
          /\ isAccountDialogOpen' = TRUE
          /\ report' = NeedsAccountReport("receivable", receivable)
          /\ UserEvent
          /\ UNCHANGED <<storeVars, ops, paymentDialogOpen, selectedPayable,
                         selectedAccountId, formVars, failures>>
       \/ /\ ~NeedsAccount(receivable)
          /\ StartSettle("receivable", receivable)
          /\ UNCHANGED dialogVars

\* onConfirm of the account dialog; handleMarkAsReceived takes one parameter,
\* so the account passed as second argument is dropped
handleAccountSelected(accountId) ==
  /\ UNCHANGED <<statusVars, listVars>>
  /\ isAccountDialogOpen
  /\ receivableForPayment # NoObl
  /\ StartSettle("receivable", receivableForPayment)
  /\ receivableForPayment' = NoObl
  /\ UNCHANGED <<paymentDialogOpen, selectedPayable, selectedAccountId,
                 isAccountDialogOpen>>

\* onClose of the account dialog
CloseAccountDialog ==
  /\ UNCHANGED <<statusVars, listVars>>
  /\ isAccountDialogOpen
  /\ isAccountDialogOpen' = FALSE
  /\ receivableForPayment' = NoObl
  /\ report' = NoReport
  /\ UNCHANGED <<storeVars, now, ops, paymentDialogOpen, selectedPayable,
                 selectedAccountId, formVars, failures, overlap>>

\* <Select onValueChange={setSelectedAccountId}>
SelectAccount(accountId) ==
  /\ UNCHANGED <<statusVars, listVars>>
  /\ paymentDialogOpen
  /\ selectedAccountId # accountId
  /\ selectedAccountId' = accountId
  /\ report' = NoReport
  /\ UNCHANGED <<storeVars, now, ops, paymentDialogOpen, selectedPayable,
                 isAccountDialogOpen, receivableForPayment, formVars, failures, overlap>>

\* the dialog's Cancelar button: setPaymentDialogOpen(false)
CancelPayment ==
  /\ UNCHANGED <<statusVars, listVars>>
  /\ paymentDialogOpen
  /\ paymentDialogOpen' = FALSE
  /\ report' = NoReport
  /\ UNCHANGED <<storeVars, now, ops, selectedPayable, selectedAccountId,
                 isAccountDialogOpen, receivableForPayment, formVars, failures, overlap>>

\* if (!selectedPayable || !selectedAccountId)
ConfirmRejected(payable, accountId) == payable = NoObl \/ accountId = NoAccount

handleConfirmPayment ==
  /\ UNCHANGED <<statusVars, listVars>>
  /\ paymentDialogOpen
  /\ \/ /\ ConfirmRejected(selectedPayable, selectedAccountId)
        /\ report' = [NoReport EXCEPT !.op = "settle", !.kind = "payable",
                                      !.id = selectedPayable.id,
                                      !.outcome = "noAccountSelected",
                                      !.stage = "confirm", !.arg = selectedPayable,
                                      !.txs = transactions]
        /\ UserEvent
        /\ UNCHANGED <<storeVars, ops, dialogVars, formVars, failures>>
     \/ /\ ~ConfirmRejected(selectedPayable, selectedAccountId)
        /\ Begin([pc |-> "confirm_update", op |-> "settle", kind |-> "payable",
                  id |-> selectedPayable.id, arg |-> selectedPayable,
                  txs |-> transactions, date |-> now, acc |-> selectedAccountId,
                  repeat |-> FALSE,
                  retry |-> IsSettleRetry("payable", selectedPayable.id)])
        /\ UNCHANGED <<storeVars, dialogVars, formVars, failures>>

\* await update...({isPaid: true, paidDate: new Date()}) of the branch that
\* found a ledger entry
SettleUpdateOnly(s) ==
  /\ UNCHANGED <<statusVars, listVars>>
  /\ ops[s].pc = "settle_update_only"
  /\ obligations' = updateObligation(obligations, ops[s].kind, ops[s].id,
                      [settled |-> TRUE, settledDate |-> ops[s].date])
  /\ Finish(s, "ok")
  /\ UNCHANGED <<transactions, nextTxId, now, dialogVars, formVars, failures, overlap>>

\* the two store calls in the other order: the ledger entry created first
SettleUpdate_Mut(s) ==
  /\ UNCHANGED <<statusVars, listVars>>
  /\ ops[s].pc = "settle_update"
  /\ transactions' = addTransaction(transactions, nextTxId,
                       IF ops[s].kind = "payable"
                       THEN PayableTransactionData(ops[s].arg, ops[s].date,
                                                   ops[s].arg.accountId)
                       ELSE ReceivableTransactionData(ops[s].arg, ops[s].date))
  /\ nextTxId' = nextTxId + 1
  /\ Goto(s, "settle_add")
  /\ UNCHANGED <<obligations, now, dialogVars, formVars, failures, overlap>>

\* await update...({isPaid: true, paidDate})
SettleUpdate(s) ==
  /\ UNCHANGED <<statusVars, listVars>>
  /\ ops[s].pc = "settle_update"
  /\ obligations' = updateObligation(obligations, ops[s].kind, ops[s].id,
                      [settled |-> TRUE, settledDate |-> ops[s].date])
  /\ Goto(s, "settle_add")
  /\ UNCHANGED <<transactions, nextTxId, now, dialogVars, formVars, failures, overlap>>

SettleTransactionData(o) ==
  IF o.kind = "payable"
  THEN PayableTransactionData(o.arg, o.date, o.arg.accountId)
  ELSE ReceivableTransactionData(o.arg, o.date)

\* await addTransaction({...})
SettleAdd(s) ==
  /\ UNCHANGED <<statusVars, listVars>>
  /\ ops[s].pc = "settle_add"
  /\ transactions' = addTransaction(transactions, nextTxId, SettleTransactionData(ops[s]))
  /\ nextTxId' = nextTxId + 1
  /\ Finish(s, "ok")
  /\ UNCHANGED <<obligations, now, dialogVars, formVars, failures, overlap>>

\* await updatePayableAccount(selectedPayable.id, {isPaid, paidDate, accountId})
ConfirmUpdate(s) ==
  /\ UNCHANGED <<statusVars, listVars>>
  /\ ops[s].pc = "confirm_update"
  /\ obligations' = updateObligation(obligations, "payable", ops[s].id,
                      [settled |-> TRUE, settledDate |-> ops[s].date,
                       accountId |-> ops[s].acc])
  /\ Goto(s, "confirm_add")
  /\ UNCHANGED <<transactions, nextTxId, now, dialogVars, formVars, failures, overlap>>

\* await addTransaction({...}); then the dialog state is reset
ConfirmAdd(s) ==
  /\ UNCHANGED <<statusVars, listVars>>
  /\ ops[s].pc = "confirm_add"
  /\ transactions' = addTransaction(transactions, nextTxId,
                       PayableTransactionData(ops[s].arg, ops[s].date, ops[s].acc))
  /\ nextTxId' = nextTxId + 1
  /\ paymentDialogOpen' = FALSE
  /\ selectedPayable' = NoObl
  /\ selectedAccountId' = NoAccount
  /\ Finish(s, "ok")
  /\ UNCHANGED <<obligations, now, isAccountDialogOpen, receivableForPayment,
                 formVars, failures, overlap>>

\* ------------------------------------------------------------------ Unsettle
\* handleMarkAsUnpaid / handleMarkAsNotReceived up to the first await
handleMarkAsUnsettled(kind, id) ==
  /\ UNCHANGED <<statusVars, listVars>>
  /\ ListEnabled
  /\ id \in DOMAIN obligations[kind]
  /\ Begin([pc |-> "unsettle_update", op |-> "unsettle", kind |-> kind, id |-> id,
            arg |-> obligations[kind][id], txs |-> transactions, date |-> NoDate,
            acc |-> NoAccount,
            repeat |-> (/\ InFlight = {}
                        /\ report.op = "unsettle" /\ report.outcome = "ok"
                        /\ report.kind = kind /\ report.id = id),
            retry |-> IsRetry("unsettle", kind, id, {"unsettle_delete"})])
  /\ UNCHANGED <<storeVars, dialogVars, formVars, failures>>

\* the update clearing the flag only: paidDate / receivedDate left as stored
UnsettleUpdate_Mut(s) ==
  /\ UNCHANGED <<statusVars, listVars>>
  /\ ops[s].pc = "unsettle_update"
  /\ obligations' = updateObligation(obligations, ops[s].kind, ops[s].id,
                      [settled |-> FALSE])
  /\ IF FindTransaction(ops[s].txs, ops[s].kind, ops[s].id) # NoTx
     THEN Goto(s, "unsettle_delete")
     ELSE Finish(s, "ok")
  /\ UNCHANGED <<transactions, nextTxId, now, dialogVars, formVars, failures, overlap>>

\* await update...({isPaid: false, paidDate: undefined}); then the lookup of
\* the related entry in the rendered `transactions`
UnsettleUpdate(s) ==
  /\ UNCHANGED <<statusVars, listVars>>
  /\ ops[s].pc = "unsettle_update"
  /\ obligations' = updateObligation(obligations, ops[s].kind, ops[s].id,
                      [settled |-> FALSE, settledDate |-> NoDate])
  /\ IF FindTransaction(ops[s].txs, ops[s].kind, ops[s].id) # NoTx
     THEN Goto(s, "unsettle_delete")
     ELSE Finish(s, "ok")
  /\ UNCHANGED <<transactions, nextTxId, now, dialogVars, formVars, failures, overlap>>

\* await deleteTransaction(relatedTransaction.id)
UnsettleDelete(s) ==
  /\ UNCHANGED <<statusVars, listVars>>
  /\ ops[s].pc = "unsettle_delete"
  /\ transactions' = deleteTransaction(transactions,
                       FindTransaction(ops[s].txs, ops[s].kind, ops[s].id).id)
  /\ Finish(s, "ok")
  /\ UNCHANGED <<obligations, nextTxId, now, dialogVars, formVars, failures, overlap>>

\* ------------------------------------------------------------------ DeleteObligation
\* the test of the obligation's flag left out: any entry found is deleted
DeleteBranch_Mut(obligation, txs, kind, id) ==
  IF FindTransaction(txs, kind, id) # NoTx THEN "delete_tx" ELSE "delete_obl"

\* if (payable?.isPaid) { relatedTransaction = find(...); if (relatedTransaction) ...
DeleteBranch(obligation, txs, kind, id) ==
  IF obligation.settled /\ FindTransaction(txs, kind, id) # NoTx
  THEN "delete_tx" ELSE "delete_obl"

\* handleDelete, confirmed, up to the first await: the lookups in the rendered
\* obligations and transactions
DeleteOp(kind, id) ==
  [pc |-> DeleteBranch(GetObligation(obligations, kind, id), transactions, kind, id),
   op |-> "delete", kind |-> kind, id |-> id,
   arg |-> GetObligation(obligations, kind, id), txs |-> transactions,
   date |-> NoDate, acc |-> NoAccount, repeat |-> FALSE, retry |-> FALSE]

handleDelete(kind, id) ==
  /\ UNCHANGED <<statusVars, listVars>>
  /\ ListEnabled
  /\ Begin(DeleteOp(kind, id))
  /\ UNCHANGED <<storeVars, dialogVars, formVars, failures>>

\* await deleteTransaction(relatedTransaction.id)
DeleteTx(s) ==
  /\ UNCHANGED <<statusVars, listVars>>
  /\ ops[s].pc = "delete_tx"
  /\ transactions' = deleteTransaction(transactions,
                       FindTransaction(ops[s].txs, ops[s].kind, ops[s].id).id)
  /\ Goto(s, "delete_obl")
  /\ UNCHANGED <<obligations, nextTxId, now, dialogVars, formVars, failures, overlap>>

\* the deletion cascading to the instalments of the deleted obligation
DeleteObl_Mut(s) ==
  /\ UNCHANGED <<statusVars, listVars>>
  /\ ops[s].pc = "delete_obl"
  /\ obligations' = [obligations EXCEPT ![ops[s].kind] =
                       [i \in {j \in DOMAIN @ : j # ops[s].id /\ @[j].parentId # ops[s].id}
                          |-> @[i]]]
  /\ Finish(s, "ok")
  /\ UNCHANGED <<transactions, nextTxId, now, dialogVars, formVars, failures, overlap>>

\* await deletePayableAccount(id) / deleteReceivableAccount(id)
DeleteObl(s) ==
  /\ UNCHANGED <<statusVars, listVars>>
  /\ ops[s].pc = "delete_obl"
  /\ obligations' = deleteObligation(obligations, ops[s].kind, ops[s].id)
  /\ Finish(s, "ok")
  /\ UNCHANGED <<transactions, nextTxId, now, dialogVars, formVars, failures, overlap>>

\* ------------------------------------------------------------------ store failure
\* the awaited store call rejects: the handler's catch block reports the error
StoreCallFails(s) ==
  /\ UNCHANGED <<statusVars, listVars>>
  /\ ops[s].pc # "idle"
  /\ failures < MaxFailures
  /\ failures' = failures + 1
  /\ Finish(s, "error")
  /\ UNCHANGED <<storeVars, now, dialogVars, formVars, overlap>>

\* ------------------------------------------------------------------ Edit (receivable form)
\* Receivables.tsx handleEdit: the form is opened on the rendered record
handleEdit(id) ==
  /\ UNCHANGED <<statusVars, listVars>>
  /\ ListEnabled
  /\ id \in DOMAIN obligations["receivable"]
  /\ editingReceivable' = obligations["receivable"][id]
  /\ isFormOpen' = TRUE
  /\ report' = NoReport
  /\ UserEvent
  /\ UNCHANGED <<storeVars, ops, dialogVars, failures>>

\* receivableData of ReceivableForm.handleSubmit
ReceivableData(receivable, value, accountId) ==
  [counterpartyId |-> receivable.counterpartyId,
   categoryId |-> receivable.categoryId,
   accountId |-> accountId,
   value |-> value,
   observations |-> receivable.observations,
   settled |-> receivable.settled,
   settledDate |-> receivable.settledDate,
   parentId |-> receivable.parentId,
   dueDate |-> receivable.dueDate,
   installmentType |-> receivable.installmentType]

\* ReceivableForm.handleSubmit for an existing receivable, then the page's
\* handleFormSubmit
handleSubmit(value, accountId) ==
  /\ UNCHANGED <<statusVars, listVars>>
  /\ isFormOpen
  /\ editingReceivable # NoObl
  /\ obligations' = updateObligation(obligations, "receivable", editingReceivable.id,
                      ReceivableData(editingReceivable, value, accountId))
  /\ isFormOpen' = FALSE
  /\ editingReceivable' = NoObl
  /\ report' = NoReport
  /\ UserEvent
  /\ UNCHANGED <<transactions, nextTxId, ops, dialogVars, failures>>

\* onCancel of the form
CancelForm ==
  /\ UNCHANGED <<statusVars, listVars>>
  /\ isFormOpen
  /\ isFormOpen' = FALSE
  /\ editingReceivable' = NoObl
  /\ report' = NoReport
  /\ UNCHANGED <<storeVars, now, ops, dialogVars, failures, overlap>>

\* ------------------------------------------------------------------ status deriver
NoStatusArg == [kind |-> "", settled |-> FALSE, dueDate |-> 0]

\* the due-date test made before the test of the settled flag
getStatus_Precedence(kind, obligation, todayDate) ==
  IF obligation.dueDate < todayDate THEN "Vencido"
  ELSE IF obligation.settled THEN (IF kind = "payable" THEN "Pago" ELSE "Recebido")
  ELSE IF obligation.dueDate - todayDate <= SevenDaysMs THEN "Vence em breve"
  ELSE "Pendente"

\* the seven-day bound made exclusive
getStatus_Strict(kind, obligation, todayDate) ==
  IF obligation.settled THEN (IF kind = "payable" THEN "Pago" ELSE "Recebido")
  ELSE IF obligation.dueDate < todayDate THEN "Vencido"
  ELSE IF obligation.dueDate - todayDate < SevenDaysMs THEN "Vence em breve"
  ELSE "Pendente"

\* getStatus of PayablesList / ReceivablesList / usePayableListLogic
getStatus(kind, obligation, todayDate) ==
  IF obligation.settled THEN (IF kind = "payable" THEN "Pago" ELSE "Recebido")
  ELSE IF obligation.dueDate < todayDate THEN "Vencido"
  ELSE IF obligation.dueDate - todayDate <= SevenDaysMs THEN "Vence em breve"
  ELSE "Pendente"

\* getStatusBadge of Payables.tsx: the label of the badge
getStatusBadge(payable, todayDate) ==
  IF payable.settled THEN "Pago"
  ELSE IF payable.dueDate < todayDate THEN "Vencido"
  ELSE IF payable.dueDate - todayDate <= SevenDaysMs THEN "Vence em breve"
  ELSE "Pendente"

\* a list row is filtered: getStatus(payable) / getStatus(receivable)
ComputeStatus ==
  /\ status = NoStatus
  /\ status' = getStatus(statusArg.kind, statusArg, today)
  /\ UNCHANGED <<obligations, transactions, nextTxId, now, ops, paymentDialogOpen,
                 selectedPayable, selectedAccountId, isAccountDialogOpen,
                 receivableForPayment, isFormOpen, editingReceivable, report,
                 failures, overlap, statusArg, today, badge, listVars>>

\* a row of the Payables page is rendered: getStatusBadge(payable)
RenderBadge ==
  /\ statusArg.kind = "payable"
  /\ badge = NoStatus
  /\ badge' = getStatusBadge(statusArg, today)
  /\ UNCHANGED <<obligations, transactions, nextTxId, now, ops, paymentDialogOpen,
                 selectedPayable, selectedAccountId, isAccountDialogOpen,
                 receivableForPayment, isFormOpen, editingReceivable, report,
                 failures, overlap, statusArg, today, status, listVars>>

\* ------------------------------------------------------------------ rendered text
\* a text is the sequence of its characters; a character outside ASCII is
\* written by its code point
Letters == <<"a", "b", "c", "d", "e", "f", "g", "h", "i", "j", "k", "l", "m",
             "n", "o", "p", "q", "r", "s", "t", "u", "v", "w", "x", "y", "z">>
Capitals == <<"A", "B", "C", "D", "E", "F", "G", "H", "I", "J", "K", "L", "M",
              "N", "O", "P", "Q", "R", "S", "T", "U", "V", "W", "X", "Y", "Z">>
DigitChars == <<"0", "1", "2", "3", "4", "5", "6", "7", "8", "9">>

\* one character of String.prototype.toLowerCase
LowerChar(c) ==
  IF \E i \in 1..Len(Capitals) : Capitals[i] = c
  THEN Letters[CHOOSE i \in 1..Len(Capitals) : Capitals[i] = c]
  ELSE IF c = "U+00DA" THEN "U+00FA"
  ELSE c

toLowerCase(text) == [i \in 1..Len(text) |-> LowerChar(text[i])]

\* String.prototype.includes
includes(text, part) ==
  \E i \in 0..(Len(text) - Len(part)) : SubSeq(text, i + 1, i + Len(part)) = part

RECURSIVE Digits(_)
Digits(n) ==
  IF n < 10 THEN <<DigitChars[n + 1]>>
  ELSE Digits(n \div 10) \o <<DigitChars[(n % 10) + 1]>>

\* Intl.NumberFormat('pt-BR', {style: 'currency', currency: 'BRL'}) of a whole
\* amount below 1000: "R$", a no-break space, the digits, ",00"
formatCurrency(value) ==
  <<"R", "$", "U+00A0">> \o Digits(value) \o <<",", "0", "0">>

Pad2(n) == IF n < 10 THEN <<"0">> \o Digits(n) ELSE Digits(n)

\* format(date, 'dd/MM/yyyy'): day 0 of the model is 01/01/2024, and every due
\* date of the model lies in that January
formatDate(date) ==
  Pad2((date \div TicksPerDay) + 1) \o <<"/", "0", "1", "/", "2", "0", "2", "4">>

\* the suppliers / clients and the categories handed to the list
CounterpartyNames ==
  [supplier1 |-> <<"Z", "e", "c", "a">>, supplier2 |-> <<"A", "n", "a">>,
   client1 |-> <<"Z", "e", "c", "a">>, client2 |-> <<"A", "n", "a">>]

CategoryNames ==
  ("despesa-cat" :> <<"L", "u", "z">>) @@ ("despesa-cat2" :> <<"A", "g", "u", "a">>)
  @@ ("receita-cat" :> <<"V", "e", "n", "d", "a", "s">>)
  @@ ("receita-cat2" :> <<"J", "u", "r", "o", "s">>)

NotFoundTail ==
  <<" ", "n", "U+00E3", "o", " ", "e", "n", "c", "o", "n", "t", "r", "a", "d">>

\* getSupplierName / getClientName: supplier?.name || 'Fornecedor não encontrado'
getCounterpartyName(kind, counterpartyId) ==
  IF counterpartyId \in DOMAIN CounterpartyNames THEN CounterpartyNames[counterpartyId]
  ELSE IF kind = "payable"
       THEN <<"F", "o", "r", "n", "e", "c", "e", "d", "o", "r">> \o NotFoundTail \o <<"o">>
       ELSE <<"C", "l", "i", "e", "n", "t", "e">> \o NotFoundTail \o <<"o">>

\* getCategoryName: category?.name || 'Categoria não encontrada'
getCategoryName(categoryId) ==
  IF categoryId \in DOMAIN CategoryNames THEN CategoryNames[categoryId]
  ELSE <<"C", "a", "t", "e", "g", "o", "r", "i", "a">> \o NotFoundTail \o <<"a">>

\* the characters of the label getStatus returns
StatusText(label) ==
  CASE label = "Pago" -> <<"P", "a", "g", "o">>
    [] label = "Recebido" -> <<"R", "e", "c", "e", "b", "i", "d", "o">>
    [] label = "Vencido" -> <<"V", "e", "n", "c", "i", "d", "o">>
    [] label = "Vence em breve"
         -> <<"V", "e", "n", "c", "e", " ", "e", "m", " ", "b", "r", "e", "v", "e">>
    [] OTHER -> <<"P", "e", "n", "d", "e", "n", "t", "e">>

\* the characters of payable.installmentType as stored
TypeText(installmentType) ==
  CASE installmentType = "unico" -> <<"u", "n", "i", "c", "o">>
    [] installmentType = "parcelado" -> <<"p", "a", "r", "c", "e", "l", "a", "d", "o">>
    [] OTHER -> <<"r", "e", "c", "o", "r", "r", "e", "n", "t", "e">>

\* the badge of the Tipo column: 'Único', 'Parcelado', 'Recorrente'
TypeLabel(installmentType) ==
  CASE installmentType = "unico" -> <<"U+00DA", "n", "i", "c", "o">>
    [] installmentType = "parcelado" -> <<"P", "a", "r", "c", "e", "l", "a", "d", "o">>
    [] OTHER -> <<"R", "e", "c", "o", "r", "r", "e", "n", "t", "e">>

\* String.prototype.localeCompare: letters are ordered by the alphabet whatever
\* their case and accent; texts equal up to case are ordered lower case first
BaseChar(c) ==
  IF c = "U+00E3" THEN "a" ELSE IF c = "U+00FA" THEN "u" ELSE c

Collation == <<" ">> \o DigitChars \o Letters

CollationRank(c) ==
  LET b == BaseChar(LowerChar(c)) IN
    IF \E i \in 1..Len(Collation) : Collation[i] = b
    THEN CHOOSE i \in 1..Len(Collation) : Collation[i] = b
    ELSE 0

RECURSIVE CompareFrom(_, _, _)
CompareFrom(a, b, i) ==
  IF i > Len(a) /\ i > Len(b) THEN 0
  ELSE IF i > Len(a) THEN 0 - 1
  ELSE IF i > Len(b) THEN 1
  ELSE IF CollationRank(a[i]) < CollationRank(b[i]) THEN 0 - 1
  ELSE IF CollationRank(a[i]) > CollationRank(b[i]) THEN 1
  ELSE CompareFrom(a, b, i + 1)

RECURSIVE CaseFrom(_, _, _)
CaseFrom(a, b, i) ==
  IF i > Len(a) THEN 0
  ELSE IF a[i] = b[i] THEN CaseFrom(a, b, i + 1)
  ELSE IF LowerChar(a[i]) = a[i] THEN 0 - 1
  ELSE 1

localeCompare(a, b) ==
  IF CompareFrom(a, b, 1) # 0 THEN CompareFrom(a, b, 1) ELSE CaseFrom(a, b, 1)

\* ------------------------------------------------------------------ list query engine
\* PayablesList / ReceivablesList / usePayableListLogic: the list of the page
\* that is mounted (listKind), over the obligations of that kind
Rows == 1..MaxRows
SortFields == {"dueDate", "value", "counterparty", "category"}
FilterKeys == {"counterparty", "category", "value", "dueDate", "status", "type"}

NoFilters ==
  [counterparty |-> <<>>, category |-> <<>>, value |-> <<>>, dueDate |-> <<>>,
   status |-> <<>>, type |-> <<>>]

\* what the user types into the filter inputs
FilterTexts ==
  [counterparty |-> {<<>>, <<"A", "N">>},
   category |-> {<<>>, <<"l", "u">>},
   value |-> {<<>>, <<"r", "$">>},
   dueDate |-> {<<>>, <<"0", "4", "/">>},
   status |-> {<<>>, <<"v", "e", "n", "c">>, <<"v", "e", "n", "c", "i", "d", "o">>},
   type |-> {<<>>, <<"U+00FA", "n", "i", "c", "o">>}]

Range(seq) == {seq[i] : i \in 1..Len(seq)}

RECURSIVE Ascending(_)
Ascending(ids) ==
  IF ids = {} THEN <<>>
  ELSE LET least == CHOOSE i \in ids : \A j \in ids : i <= j
       IN <<least>> \o Ascending(ids \ {least})

\* the payableAccounts / receivableAccounts array the list receives: the stored
\* records in the order of their creation
Listed(obs, kind) ==
  LET ids == Ascending(DOMAIN obs[kind])
  IN [n \in 1..Len(ids) |-> obs[kind][ids[n]]]

\* the predicate with the status label searched as it is written
Passes_Mut(kind, o, f, todayDate) ==
  /\ includes(toLowerCase(getCounterpartyName(kind, o.counterpartyId)),
              toLowerCase(f.counterparty))
  /\ includes(toLowerCase(getCategoryName(o.categoryId)), toLowerCase(f.category))
  /\ includes(formatCurrency(o.value), f.value)
  /\ includes(formatDate(o.dueDate), f.dueDate)
  /\ includes(StatusText(getStatus(kind, o, todayDate)), toLowerCase(f.status))
  /\ includes(TypeText(o.installmentType), toLowerCase(f.type))

\* the predicate of payableAccounts.filter(...): the value and due date tests
\* take the filter text as typed, the type test takes the stored type
Passes(kind, o, f, todayDate) ==
  /\ includes(toLowerCase(getCounterpartyName(kind, o.counterpartyId)),
              toLowerCase(f.counterparty))
  /\ includes(toLowerCase(getCategoryName(o.categoryId)), toLowerCase(f.category))
  /\ includes(formatCurrency(o.value), f.value)
  /\ includes(formatDate(o.dueDate), f.dueDate)
  /\ includes(toLowerCase(StatusText(getStatus(kind, o, todayDate))),
              toLowerCase(f.status))
  /\ includes(TypeText(o.installmentType), toLowerCase(f.type))

\* the comparator with the counterparty compared by its id, not by its name
SortCompare_Mut(kind, field, direction, a, b) ==
  LET asc == CASE field = "dueDate" -> a.dueDate - b.dueDate
               [] field = "value" -> a.value - b.value
               [] field = "counterparty"
                    -> IF a.counterpartyId = b.counterpartyId THEN 0
                       ELSE IF a.id < b.id THEN 0 - 1 ELSE 1
               [] field = "category"
                    -> localeCompare(getCategoryName(a.categoryId),
                                     getCategoryName(b.categoryId))
               [] OTHER -> 0
  IN IF direction = "asc" THEN asc ELSE 0 - asc

\* the comparator of filtered.sort((a, b) => ...): b compared with a when the
\* direction is desc
SortCompare(kind, field, direction, a, b) ==
  LET asc == CASE field = "dueDate" -> a.dueDate - b.dueDate
               [] field = "value" -> a.value - b.value
               [] field = "counterparty"
                    -> localeCompare(getCounterpartyName(kind, a.counterpartyId),
                                     getCounterpartyName(kind, b.counterpartyId))
               [] field = "category"
                    -> localeCompare(getCategoryName(a.categoryId),
                                     getCategoryName(b.categoryId))
               [] OTHER -> 0
  IN IF direction = "asc" THEN asc ELSE 0 - asc

\* a sort that puts an element before the elements it compares equal to
Insert_Mut(kind, field, direction, sorted, x) ==
  LET before == {i \in 1..Len(sorted) :
                   \A j \in 1..i : SortCompare(kind, field, direction, sorted[j], x) < 0}
      n == Cardinality(before)
  IN SubSeq(sorted, 1, n) \o <<x>> \o SubSeq(sorted, n + 1, Len(sorted))

\* Array.prototype.sort is stable: an element goes behind the elements that do
\* not compare greater than it
Insert(kind, field, direction, sorted, x) ==
  LET before == {i \in 1..Len(sorted) :
                   \A j \in 1..i : SortCompare(kind, field, direction, sorted[j], x) <= 0}
      n == Cardinality(before)
  IN SubSeq(sorted, 1, n) \o <<x>> \o SubSeq(sorted, n + 1, Len(sorted))

RECURSIVE StableSort(_, _, _, _)
StableSort(kind, field, direction, seq) ==
  IF seq = <<>> THEN <<>>
  ELSE Insert(kind, field, direction,
              StableSort(kind, field, direction, SubSeq(seq, 1, Len(seq) - 1)),
              seq[Len(seq)])

Filtered(kind, obs, f, todayDate) ==
  SelectSeq(Listed(obs, kind), LAMBDA o : Passes(kind, o, f, todayDate))

\* the useMemo: filter, then sort
View(kind, obs, f, field, direction, todayDate) ==
  StableSort(kind, field, direction, Filtered(kind, obs, f, todayDate))

filteredAndSortedPayables ==
  View(listKind, obligations, filters, sortField, sortDirection, today)

IdsOf(records) == [n \in 1..Len(records) |-> records[n].id]

ViewIds == IdsOf(filteredAndSortedPayables)

\* every variable but the list's own
mainVars == <<obligations, transactions, nextTxId, now, ops, paymentDialogOpen,
              selectedPayable, selectedAccountId, isAccountDialogOpen,
              receivableForPayment, isFormOpen, editingReceivable, report,
              failures, overlap>>

\* the filter change that takes the rows it hides out of the selection
handleFilterChange_Mut(key, text) ==
  /\ ListEnabled
  /\ filters[key] # text
  /\ filters' = [filters EXCEPT ![key] = text]
  /\ selectedIds' = SelectSeq(selectedIds, LAMBDA id :
                      id \in Range(IdsOf(View(listKind, obligations, filters', sortField,
                                             sortDirection, today))))
  /\ UNCHANGED <<mainVars, statusVars, listKind, sortField, sortDirection>>

\* onChange of a filter input: setFilters(prev => ({...prev, [key]: value}))
handleFilterChange(key, text) ==
  /\ ListEnabled
  /\ filters[key] # text
  /\ filters' = [filters EXCEPT ![key] = text]
  /\ UNCHANGED <<mainVars, statusVars, listKind, sortField, sortDirection,
                 selectedIds>>

\* a header click that keeps the direction when the field changes
handleSort_Mut(field) ==
  /\ ListEnabled
  /\ IF sortField = field
     THEN /\ sortDirection' = (IF sortDirection = "asc" THEN "desc" ELSE "asc")
          /\ UNCHANGED sortField
     ELSE /\ sortField' = field
          /\ UNCHANGED sortDirection
  /\ UNCHANGED <<mainVars, statusVars, listKind, filters, selectedIds>>

handleSort(field) ==
  /\ ListEnabled
  /\ IF sortField = field
     THEN /\ sortDirection' = (IF sortDirection = "asc" THEN "desc" ELSE "asc")
          /\ UNCHANGED sortField
     ELSE /\ sortField' = field
          /\ sortDirection' = "asc"
  /\ UNCHANGED <<mainVars, statusVars, listKind, filters, selectedIds>>

\* if (selectedIds.length === filteredAndSortedPayables.length)
handleSelectAll ==
  /\ ListEnabled
  /\ selectedIds' = IF Len(selectedIds) = Len(filteredAndSortedPayables)
                    THEN <<>> ELSE ViewIds
  /\ UNCHANGED <<mainVars, statusVars, listKind, filters, sortField, sortDirection>>

\* the checkbox of a rendered row
handleSelectPayable(id) ==
  /\ ListEnabled
  /\ id \in Range(ViewIds)
  /\ selectedIds' = IF id \in Range(selectedIds)
                    THEN SelectSeq(selectedIds, LAMBDA selectedId : selectedId # id)
                    ELSE Append(selectedIds, id)
  /\ UNCHANGED <<mainVars, statusVars, listKind, filters, sortField, sortDirection>>

\* ------------------------------------------------------------------ bulk delete
FreeSlots == Slots \ InFlight
FreeRank(s) == Cardinality({t \in FreeSlots : t <= s})

\* the bulk delete that runs over the rows of the view instead of over the
\* selection
handleDeleteSelected_Mut(confirmed) ==
  /\ ListEnabled
  /\ selectedIds # <<>>
  /\ confirmed \subseteq Range(selectedIds)
  /\ LET started == ViewIds IN
       /\ Len(started) <= Cardinality(FreeSlots)
       /\ UserEvent
       /\ ops' = [s \in Slots |->
                    IF s \in FreeSlots /\ FreeRank(s) <= Len(started)
                    THEN [bulk |-> [ids |-> selectedIds, confirmed |-> confirmed,
                                    view |-> ViewIds,
                                    settled |-> {id \in Range(selectedIds) :
                                      GetObligation(obligations, listKind, id).settled}],
                          began |-> now']
                         @@ DeleteOp(listKind, started[FreeRank(s)])
                    ELSE ops[s]]
  /\ report' = NoReport
  /\ selectedIds' = <<>>
  /\ UNCHANGED <<storeVars, dialogVars, formVars, failures, statusVars, listKind,
                 filters, sortField, sortDirection>>

\* handleDeleteSelected, its confirm accepted: onDelete(id) for every selected
\* id without awaiting it, then setSelectedIds([]).  Each onDelete is the
\* page's handleDelete, which asks its own confirm: `confirmed` are the ids
\* whose confirm is accepted.  All of them run up to their first await in this
\* one event, on the same rendered obligations and transactions.
handleDeleteSelected(confirmed) ==
  /\ ListEnabled
  /\ selectedIds # <<>>
  /\ confirmed \subseteq Range(selectedIds)
  /\ LET started == SelectSeq(selectedIds, LAMBDA id : id \in confirmed) IN
       /\ Len(started) <= Cardinality(FreeSlots)
       /\ UserEvent
       /\ ops' = [s \in Slots |->
                    IF s \in FreeSlots /\ FreeRank(s) <= Len(started)
                    THEN [bulk |-> [ids |-> selectedIds, confirmed |-> confirmed,
                                    view |-> ViewIds,
                                    settled |-> {id \in Range(selectedIds) :
                                      GetObligation(obligations, listKind, id).settled}],
                          began |-> now']
                         @@ DeleteOp(listKind, started[FreeRank(s)])
                    ELSE ops[s]]
  /\ report' = NoReport
  /\ selectedIds' = <<>>
  /\ UNCHANGED <<storeVars, dialogVars, formVars, failures, statusVars, listKind,
                 filters, sortField, sortDirection>>

\* ------------------------------------------------------------------ specification
Init ==
  /\ obligations = [k \in Kinds |-> [i \in Ids |-> InitialObligation(k, i)]]
  /\ transactions = <<ManualTx>>
  /\ nextTxId = 2
  /\ now = 1
  /\ ops = [s \in Slots |-> IdleOp]
  /\ paymentDialogOpen = FALSE
  /\ selectedPayable = NoObl
  /\ selectedAccountId = NoAccount
  /\ isAccountDialogOpen = FALSE
  /\ receivableForPayment = NoObl
  /\ isFormOpen = FALSE
  /\ editingReceivable = NoObl
  /\ report = NoReport
  /\ failures = 0
  /\ overlap = FALSE
  /\ statusArg = NoStatusArg
  /\ today = 0
  /\ status = NoStatus
  /\ badge = NoStatus
  /\ listKind = "payable"
  /\ filters = NoFilters
  /\ sortField = "dueDate"
  /\ sortDirection = "asc"
  /\ selectedIds = <<>>

Next ==
  \/ \E id \in Ids : handleMarkAsPaid(id)
  \/ \E id \in Ids : handleMarkAsReceivedClick(id)
  \/ \E a \in Accounts : handleAccountSelected(a)
  \/ CloseAccountDialog
  \/ \E a \in Accounts : SelectAccount(a)
  \/ CancelPayment
  \/ handleConfirmPayment
  \/ \E k \in Kinds, id \in Ids : handleMarkAsUnsettled(k, id)
  \/ \E k \in Kinds, id \in Ids : handleDelete(k, id)
  \/ \E id \in Ids : handleEdit(id)
  \/ \E v \in Values, a \in AccountOpts : handleSubmit(v, a)
  \/ CancelForm
  \/ \E s \in Slots : SettleUpdateOnly(s)
  \/ \E s \in Slots : SettleUpdate(s)
  \/ \E s \in Slots : SettleAdd(s)
  \/ \E s \in Slots : ConfirmUpdate(s)
  \/ \E s \in Slots : ConfirmAdd(s)
  \/ \E s \in Slots : UnsettleUpdate(s)
  \/ \E s \in Slots : UnsettleDelete(s)
  \/ \E s \in Slots : DeleteTx(s)
  \/ \E s \in Slots : DeleteObl(s)
  \/ \E s \in Slots : StoreCallFails(s)

Spec == Init /\ [][Next]_vars

\* the status deriver applied to any record at any instant
StatusInit ==
  /\ obligations = [k \in Kinds |-> [i \in Ids |-> InitialObligation(k, i)]]
  /\ transactions = <<ManualTx>>
  /\ nextTxId = 2
  /\ now = 1
  /\ ops = [s \in Slots |-> IdleOp]
  /\ paymentDialogOpen = FALSE
  /\ selectedPayable = NoObl
  /\ selectedAccountId = NoAccount
  /\ isAccountDialogOpen = FALSE
  /\ receivableForPayment = NoObl
  /\ isFormOpen = FALSE
  /\ editingReceivable = NoObl
  /\ report = NoReport
  /\ failures = 0
  /\ overlap = FALSE
  /\ statusArg \in [kind : Kinds, settled : BOOLEAN, dueDate : DueDates]
  /\ today \in Todays
  /\ status = NoStatus
  /\ badge = NoStatus
  /\ listKind = "payable"
  /\ filters = NoFilters
  /\ sortField = "dueDate"
  /\ sortDirection = "asc"
  /\ selectedIds = <<>>

StatusNext ==
  \/ ComputeStatus
  \/ RenderBadge

StatusSpec == StatusInit /\ [][StatusNext]_vars

\* the list query engine over a collection of MaxRows records, some of them
\* settled with their ledger entry
SettledRow(kind, id) ==
  [InitialObligation(kind, id) EXCEPT
     !.settled = TRUE, !.settledDate = 1,
     !.accountId = IF kind = "payable" THEN "acc1" ELSE @]

SettledEntry(kind, id) ==
  IF kind = "payable"
  THEN PayableTransactionData(InitialObligation(kind, id), 1, "acc1")
  ELSE ReceivableTransactionData(InitialObligation(kind, id), 1)

RECURSIVE EntriesOf(_, _, _)
EntriesOf(kind, ids, txId) ==
  IF ids = <<>> THEN <<>>
  ELSE <<[SettledEntry(kind, ids[1]) EXCEPT !.id = txId]>>
       \o EntriesOf(kind, SubSeq(ids, 2, Len(ids)), txId + 1)

ListInit ==
  /\ listKind \in Kinds
  /\ \E settledRows \in SUBSET {2} :
       /\ obligations = [k \in Kinds |-> [i \in Rows |->
                           IF k = listKind /\ i \in settledRows
                           THEN SettledRow(k, i) ELSE InitialObligation(k, i)]]
       /\ transactions = <<ManualTx>> \o EntriesOf(listKind, Ascending(settledRows), 2)
       /\ nextTxId = 2 + Cardinality(settledRows)
  /\ now = 1
  /\ ops = [s \in Slots |-> IdleOp]
  /\ paymentDialogOpen = FALSE
  /\ selectedPayable = NoObl
  /\ selectedAccountId = NoAccount
  /\ isAccountDialogOpen = FALSE
  /\ receivableForPayment = NoObl
  /\ isFormOpen = FALSE
  /\ editingReceivable = NoObl
  /\ report = NoReport
  /\ failures = 0
  /\ overlap = FALSE
  /\ statusArg = NoStatusArg
  /\ today = TicksPerDay
  /\ status = NoStatus
  /\ badge = NoStatus
  /\ filters = NoFilters
  /\ sortField = "dueDate"
  /\ sortDirection = "asc"
  /\ selectedIds = <<>>

ListNext ==
  \/ \E key \in FilterKeys : \E text \in FilterTexts[key] : handleFilterChange(key, text)
  \/ \E field \in SortFields : handleSort(field)
  \/ handleSelectAll
  \/ \E id \in Rows : handleSelectPayable(id)

ListSpec == ListInit /\ [][ListNext]_vars

\* bulk delete on the page of one kind, among Settles of that kind
BulkInit ==
  /\ listKind \in Kinds
  /\ obligations = [k \in Kinds |-> [i \in Ids |-> InitialObligation(k, i)]]
  /\ transactions = <<ManualTx>>
  /\ nextTxId = 2
  /\ now = 1
  /\ ops = [s \in Slots |-> IdleOp]
  /\ paymentDialogOpen = FALSE
  /\ selectedPayable = NoObl
  /\ selectedAccountId = NoAccount
  /\ isAccountDialogOpen = FALSE
  /\ receivableForPayment = NoObl
  /\ isFormOpen = FALSE
  /\ editingReceivable = NoObl
  /\ report = NoReport
  /\ failures = 0
  /\ overlap = FALSE
  /\ statusArg = NoStatusArg
  /\ today = TicksPerDay
  /\ status = NoStatus
  /\ badge = NoStatus
  /\ filters \in {NoFilters, [NoFilters EXCEPT !.counterparty = <<"A", "N">>]}
  /\ sortField = "dueDate"
  /\ sortDirection = "asc"
  /\ selectedIds = <<>>

BulkNext ==
  \/ \E id \in Ids : listKind = "payable" /\ handleMarkAsPaid(id)
  \/ \E id \in Ids : listKind = "receivable" /\ handleMarkAsReceivedClick(id)
  \/ \E a \in Accounts : handleAccountSelected(a)
  \/ CloseAccountDialog
  \/ CancelPayment
  \/ handleSelectAll
  \/ \E confirmed \in SUBSET Ids : handleDeleteSelected(confirmed)
  \/ \E s \in Slots : SettleUpdateOnly(s)
  \/ \E s \in Slots : SettleUpdate(s)
  \/ \E s \in Slots : SettleAdd(s)
  \/ \E s \in Slots : DeleteTx(s)
  \/ \E s \in Slots : DeleteObl(s)
  \/ \E s \in Slots : StoreCallFails(s)

BulkSpec == BulkInit /\ [][BulkNext]_vars

\* the selection of the list among filter changes, the delete button of a row
\* and bulk deletes, MaxDeletes delete clicks in a run; the second record may
\* be settled with its ledger entry
SelectInit ==
  /\ listKind \in Kinds
  /\ \E settledRows \in SUBSET {2} :
       /\ obligations = [k \in Kinds |-> [i \in Ids |->
                           IF k = listKind /\ i \in settledRows
                           THEN SettledRow(k, i) ELSE InitialObligation(k, i)]]
       /\ transactions = <<ManualTx>> \o EntriesOf(listKind, Ascending(settledRows), 2)
       /\ nextTxId = 2 + Cardinality(settledRows)
  /\ now = 1
  /\ ops = [s \in Slots |-> IdleOp]
  /\ paymentDialogOpen = FALSE
  /\ selectedPayable = NoObl
  /\ selectedAccountId = NoAccount
  /\ isAccountDialogOpen = FALSE
  /\ receivableForPayment = NoObl
  /\ isFormOpen = FALSE
  /\ editingReceivable = NoObl
  /\ report = NoReport
  /\ failures = 0
  /\ overlap = FALSE
  /\ statusArg = NoStatusArg
  /\ today = TicksPerDay
  /\ status = NoStatus
  /\ badge = NoStatus
  /\ filters = NoFilters
  /\ sortField = "dueDate"
  /\ sortDirection = "asc"
  /\ selectedIds = <<>>

SelectNext ==
  \/ \E text \in FilterTexts["counterparty"] : handleFilterChange("counterparty", text)
  \/ handleSelectAll
  \/ \E id \in Ids : handleSelectPayable(id)
  \/ \E id \in Ids : now <= MaxDeletes /\ handleDelete(listKind, id)
  \/ \E confirmed \in SUBSET Ids : now <= MaxDeletes /\ handleDeleteSelected(confirmed)
  \/ \E s \in Slots : DeleteTx(s)
  \/ \E s \in Slots : DeleteObl(s)
  \/ \E s \in Slots : StoreCallFails(s)

SelectSpec == SelectInit /\ [][SelectNext]_vars

\* ------------------------------------------------------------------ vocabulary of the claims
LinkedCount(kind, id) == Cardinality(Linked(transactions, kind, id))
Exists(kind, id) == id \in DOMAIN obligations[kind]
Quiescent == InFlight = {}
CreatedEntry == report.op = "settle" /\ report.outcome = "ok"
                /\ report.stage \in {"settle_add", "confirm_add"}

\* ------------------------------------------------------------------ C1
\* C1: once every Settle, Unsettle, DeleteObligation and Edit has completed and
\* no store call has failed, an existing obligation is settled if and only if
\* exactly one ledger entry is linked to it.
C1_SettledIffOneEntry ==
  (Quiescent /\ failures = 0 /\ ~overlap) =>
    \A k \in Kinds : \A id \in DOMAIN obligations[k] :
      obligations[k][id].settled <=> (LinkedCount(k, id) = 1)

\* ------------------------------------------------------------------ C2
\* C2: in every reachable state, also in the middle of an operation, after a
\* failed store call and after a doubly-triggered Settle, at most one ledger
\* entry is linked to any (sourceType, sourceId).
C2_AtMostOneLinked ==
  \A k \in Kinds : \A id \in Ids : LinkedCount(k, id) <= 1

\* ------------------------------------------------------------------ C3
\* C3: Settle is idempotent on the ledger on every settle path: a Settle that
\* has created a ledger entry leaves exactly one entry linked to its
\* obligation, that is, it created none where one was already linked.
C3_SettleCreatesNoSecondEntry ==
  CreatedEntry => LinkedCount(report.kind, report.id) = 1

\* ------------------------------------------------------------------ C4
\* C4: the ledger entry a Settle creates carries the obligation's counterparty,
\* category, value and observations, an account that is present, the date
\* written as settledDate, and the back-reference to the obligation.
C4_CreatedEntryCarriesObligation ==
  CreatedEntry =>
    LET t == transactions[Len(transactions)] IN
      /\ t.clientSupplierId = report.arg.counterpartyId
      /\ t.categoryId = report.arg.categoryId
      /\ t.value = report.arg.value
      /\ t.observations = report.arg.observations
      /\ t.paymentDate = report.date
      /\ t.sourceType = report.kind
      /\ t.sourceId = report.id
      /\ t.type = TxType(report.kind)
      /\ t.accountId # NoAccount

\* ------------------------------------------------------------------ C5
\* C5: a Settle requested for an obligation without accountId signals that an
\* account has to be selected and changes neither store; confirming the
\* payment prompt without a selected account reports an error and changes
\* neither store.
C5_NoAccountNoChange ==
  [][/\ \A id \in Ids :
          (/\ Exists("payable", id)
           /\ obligations["payable"][id].accountId = NoAccount
           /\ handleMarkAsPaid(id))
          => (/\ report'.outcome = "needsAccount"
              /\ paymentDialogOpen'
              /\ selectedPayable'.id = id
              /\ obligations' = obligations /\ transactions' = transactions
              /\ ops' = ops)
     /\ \A id \in Ids :
          (/\ Exists("receivable", id)
           /\ obligations["receivable"][id].accountId = NoAccount
           /\ handleMarkAsReceivedClick(id))
          => (/\ report'.outcome = "needsAccount"
              /\ isAccountDialogOpen'
              /\ receivableForPayment'.id = id
              /\ obligations' = obligations /\ transactions' = transactions
              /\ ops' = ops)
     /\ (selectedAccountId = NoAccount /\ handleConfirmPayment)
          => (/\ report'.outcome = "noAccountSelected"
              /\ obligations' = obligations /\ transactions' = transactions
              /\ ops' = ops)
    ]_vars

\* a payment prompt confirmed with no account selected, after it was opened
\* for a payable without accountId
C5_Witness ==
  /\ report.outcome = "noAccountSelected"
  /\ paymentDialogOpen
  /\ selectedPayable # NoObl
  /\ selectedPayable.accountId = NoAccount
  /\ selectedAccountId = NoAccount

\* ------------------------------------------------------------------ C6
\* C6: a successful Unsettle leaves the obligation with settled = false and no
\* settledDate, and no ledger entry linked to it.
C6_UnsettleLeavesNoEntry ==
  (report.op = "unsettle" /\ report.outcome = "ok") =>
    /\ Exists(report.kind, report.id) =>
         /\ ~obligations[report.kind][report.id].settled
         /\ obligations[report.kind][report.id].settledDate = NoDate
    /\ LinkedCount(report.kind, report.id) = 0

\* ------------------------------------------------------------------ C7
\* C7: Unsettle applied again right after a successful Unsettle of the same
\* obligation, with nothing else running and no other user event since it
\* began, changes neither the obligation's settlement fields nor the ledger.
C7_SecondUnsettleChangesNothing ==
  [][\A s \in Slots :
       (/\ ops[s].op = "unsettle"
        /\ ops[s].repeat
        /\ ops[s].began = now
        /\ InFlight = {s}
        /\ ops'[s] # ops[s]
        /\ failures' = failures)
       => (/\ transactions' = transactions
           /\ GetObligation(obligations', ops[s].kind, ops[s].id).settled
                = GetObligation(obligations, ops[s].kind, ops[s].id).settled
           /\ GetObligation(obligations', ops[s].kind, ops[s].id).settledDate
                = GetObligation(obligations, ops[s].kind, ops[s].id).settledDate)
    ]_vars

\* ------------------------------------------------------------------ C8
\* C8: DeleteObligation on a settled obligation, once it has completed without
\* failure, leaves neither the obligation nor a ledger entry linked to it; and
\* if deleting the ledger entry fails, the obligation has not been deleted by
\* this operation.
C8_DeleteRemovesBoth ==
  (report.op = "delete" /\ report.arg.settled) =>
    /\ report.outcome = "ok" =>
         /\ ~Exists(report.kind, report.id)
         /\ LinkedCount(report.kind, report.id) = 0
    /\ (report.outcome = "error" /\ report.stage = "delete_tx") =>
         LinkedCount(report.kind, report.id) > 0

\* ------------------------------------------------------------------ C9
\* C9: when no operation is in progress, no ledger entry of sourceType payable
\* or receivable references an obligation that does not exist.
C9_NoOrphanEntry ==
  (Quiescent /\ ~overlap) =>
    \A n \in 1..Len(transactions) :
      transactions[n].sourceType \in Kinds =>
        Exists(transactions[n].sourceType, transactions[n].sourceId)

\* ------------------------------------------------------------------ C10
\* C10: an operation that reports success never leaves its obligation existing
\* and settled with zero or with more than one linked ledger entry.
C10_SuccessMeansConsistent ==
  (report.outcome = "ok" /\ Exists(report.kind, report.id)
     /\ obligations[report.kind][report.id].settled)
  => LinkedCount(report.kind, report.id) = 1

\* ------------------------------------------------------------------ C11
\* C11: a Settle or Unsettle whose lookup of the linked ledger entry meets
\* more than one entry with the obligation's (sourceType, sourceId) does not
\* report success: it reports the duplicate as an error.
C11_DuplicateIsReported ==
  (/\ report.op \in {"settle", "unsettle"}
   /\ report.stage # "click"
   /\ Cardinality(Linked(report.txs, report.kind, report.id)) > 1)
  => report.outcome # "ok"

\* ------------------------------------------------------------------ C12
\* C12: after a Settle that failed between the obligation update and the
\* creation of the ledger entry (no entry linked), a Settle re-run on the same
\* obligation that completes leaves it settled with exactly one linked entry.
C12_SettleRetryRepairs ==
  (/\ report.op = "settle" /\ report.retry /\ report.began = now
   /\ report.outcome = "ok")
  => /\ Exists(report.kind, report.id)
     /\ obligations[report.kind][report.id].settled
     /\ LinkedCount(report.kind, report.id) = 1

\* a re-run Settle has completed on an obligation whose first Settle failed
\* before the ledger entry was created
C12_Witness ==
  /\ report.op = "settle" /\ report.retry /\ report.began = now
  /\ report.outcome = "ok"
  /\ failures = 1
  /\ Linked(report.txs, report.kind, report.id) = {}

\* ------------------------------------------------------------------ C13
\* C13: after an Unsettle that failed between clearing the settled flag and
\* removing the ledger entry, an Unsettle re-run on the same obligation that
\* completes leaves it unsettled with no linked ledger entry.
C13_UnsettleRetryRepairs ==
  (/\ report.op = "unsettle" /\ report.retry /\ report.began = now
   /\ report.outcome = "ok")
  => /\ Exists(report.kind, report.id) =>
          ~obligations[report.kind][report.id].settled
     /\ LinkedCount(report.kind, report.id) = 0

\* ------------------------------------------------------------------ C14
\* the ledger without the entries linked to (kind, id)
Others(txs, kind, id) ==
  SelectSeq(txs, LAMBDA t : ~(t.sourceType = kind /\ t.sourceId = id))

OtherKind(kind) == IF kind = "payable" THEN "receivable" ELSE "payable"

\* C14: a step of a Settle, Unsettle or DeleteObligation on obligation o leaves
\* every manual ledger entry and every entry linked to another obligation (also
\* the obligation of the other kind with the same id) as it was, and no other
\* step changes the ledger.
C14_OnlyOwnEntriesTouched ==
  [][/\ \A s \in Slots :
          (ops[s].pc # "idle" /\ ops'[s] # ops[s])
          => Others(transactions', ops[s].kind, ops[s].id)
               = Others(transactions, ops[s].kind, ops[s].id)
     /\ (\A s \in Slots : ops[s].pc = "idle" \/ ops'[s] = ops[s])
          => transactions' = transactions
    ]_vars

\* an Unsettle or DeleteObligation has removed its obligation's entry while the
\* obligation of the other kind with the same id has its own linked entry
C14_Witness ==
  /\ report.op \in {"unsettle", "delete"}
  /\ report.outcome = "ok"
  /\ FindTransaction(report.txs, report.kind, report.id) # NoTx
  /\ LinkedCount(report.kind, report.id) = 0
  /\ LinkedCount(OtherKind(report.kind), report.id) = 1
  /\ Len(transactions) = 2 /\ transactions[1] = ManualTx

\* ------------------------------------------------------------------ C15
\* C15: DeleteObligation invoked with an id for which no obligation exists
\* completes without an error report and changes neither the ledger nor any
\* obligation.
C15_DeleteAbsentIsNoop ==
  [][\A s \in Slots :
       (/\ ops[s].op = "delete"
        /\ ops[s].arg = NoObl
        /\ ops'[s] # ops[s]
        /\ failures' = failures)
       => (/\ transactions' = transactions
           /\ obligations' = obligations
           /\ report'.outcome = "ok")
    ]_vars

\* a DeleteObligation of an id that was already deleted has completed
C15_Witness ==
  /\ report.op = "delete"
  /\ report.arg = NoObl
  /\ report.outcome = "ok"
  /\ ~Exists(report.kind, report.id)

\* ------------------------------------------------------------------ C16
\* the entries linked to (kind, id), in ledger order
LinkedEntries(txs, kind, id) ==
  SelectSeq(txs, LAMBDA t : t.sourceType = kind /\ t.sourceId = id)

\* C16: a step of DeleteObligation(id) leaves every other obligation in the
\* store, in particular the ones whose parentId is id and the ones that share
\* the deleted obligation's parentId, with all fields and linked ledger entries
\* unchanged.
C16_DeleteOnlyThatId ==
  [][\A s \in Slots :
       (ops[s].op = "delete" /\ ops[s].pc # "idle" /\ ops'[s] # ops[s])
       => \A k \in Kinds : \A i \in DOMAIN obligations[k] :
            (k # ops[s].kind \/ i # ops[s].id)
            => /\ i \in DOMAIN obligations'[k]
               /\ obligations'[k][i] = obligations[k][i]
               /\ LinkedEntries(transactions', k, i) = LinkedEntries(transactions, k, i)
    ]_vars

\* a parent obligation has been deleted while its instalment is settled and
\* keeps its linked ledger entry
C16_Witness ==
  /\ report.op = "delete" /\ report.outcome = "ok"
  /\ report.arg # NoObl
  /\ ~Exists(report.kind, report.id)
  /\ \E i \in DOMAIN obligations[report.kind] :
       /\ obligations[report.kind][i].parentId = report.id
       /\ obligations[report.kind][i].settled
       /\ LinkedCount(report.kind, i) = 1

\* ------------------------------------------------------------------ C17
\* a Settle or Unsettle of obligation (kind, id) is awaiting a store call
SettlementInProgress(kind, id) ==
  \E s \in InFlight : /\ ops[s].op \in {"settle", "unsettle"}
                      /\ ops[s].kind = kind /\ ops[s].id = id

\* C17: in every state in which no Settle or Unsettle of an obligation is in
\* progress, the obligation's settledDate is present if and only if its settled
\* flag is true.
C17_DatePresentIffSettled ==
  \A k \in Kinds : \A i \in DOMAIN obligations[k] :
    ~SettlementInProgress(k, i)
    => (obligations[k][i].settled <=> obligations[k][i].settledDate # NoDate)

\* a receivable that has been settled and edited carries its flag and its date
C17_Witness ==
  /\ Quiescent
  /\ \E i \in DOMAIN obligations["receivable"] :
       /\ obligations["receivable"][i].value # InitialObligation("receivable", i).value
       /\ obligations["receivable"][i].settled
       /\ obligations["receivable"][i].settledDate # NoDate
       /\ LinkedCount("receivable", i) = 1

\* ------------------------------------------------------------------ C18
SettledLabel(kind) == IF kind = "payable" THEN "Pago" ELSE "Recebido"
Labels(kind) == {SettledLabel(kind), "Vencido", "Vence em breve", "Pendente"}

\* the status the precedence of the claim gives: Settled, else Overdue when the
\* due date is before now, else DueSoon when it is at most 7 days after now,
\* else Pending
ExpectedLabel(kind, settled, dueDate, nowDate) ==
  CASE settled -> SettledLabel(kind)
    [] ~settled /\ dueDate < nowDate -> "Vencido"
    [] ~settled /\ dueDate >= nowDate /\ dueDate - nowDate <= DueSoonDays * TicksPerDay
         -> "Vence em breve"
    [] OTHER -> "Pendente"

\* C18: for every record and instant the derived status is exactly one of the
\* four statuses, chosen by the precedence Settled, Overdue, DueSoon, Pending.
C18_StatusPrecedence ==
  /\ status # NoStatus =>
       /\ status \in Labels(statusArg.kind)
       /\ status = ExpectedLabel(statusArg.kind, statusArg.settled,
                                 statusArg.dueDate, today)
  /\ badge # NoStatus =>
       badge = ExpectedLabel("payable", statusArg.settled, statusArg.dueDate, today)

\* a settled record whose due date has passed has been given its status
C18_Witness ==
  /\ statusArg.settled /\ statusArg.dueDate < today
  /\ status = SettledLabel(statusArg.kind)

\* ------------------------------------------------------------------ C19
Day(instant) == instant \div TicksPerDay

\* C19: an unsettled record is Overdue only when its due date is a calendar day
\* before the day of now; due on the day of now it is not Overdue, whatever the
\* time of day.
C19_OverdueByDay ==
  /\ (status # NoStatus /\ ~statusArg.settled) =>
       (status = "Vencido" <=> Day(statusArg.dueDate) < Day(today))
  /\ (badge # NoStatus /\ ~statusArg.settled) =>
       (badge = "Vencido" <=> Day(statusArg.dueDate) < Day(today))

\* ------------------------------------------------------------------ C20
\* C20: an unsettled record due exactly 7 days after now is DueSoon, and one
\* due more than 7 days after now is Pending.
C20_SevenDaysInclusive ==
  (status # NoStatus /\ ~statusArg.settled) =>
    /\ statusArg.dueDate - today = DueSoonDays * TicksPerDay => status = "Vence em breve"
    /\ statusArg.dueDate - today > DueSoonDays * TicksPerDay => status = "Pendente"

\* an unsettled record due exactly 7 days after now has been given its status
C20_Witness ==
  /\ ~statusArg.settled
  /\ statusArg.dueDate - today = DueSoonDays * TicksPerDay
  /\ status = "Vence em breve"

\* ------------------------------------------------------------------ C21
UnsettledLabels == {"Vencido", "Vence em breve", "Pendente"}

\* the status of the stored obligation at the instant todayDate
StatusOf(kind, id, todayDate) ==
  getStatus(kind, GetObligation(obligations, kind, id), todayDate)

\* C21: at every instant of now, the status of an obligation is Settled when a
\* Settle of it has completed, and when an Unsettle of it has completed it is
\* the one of Pending, DueSoon and Overdue that its due date and now give, the
\* status it had before it was settled.
C21_StatusFollowsSettlement ==
  \A t \in Todays :
    /\ (report.op = "settle" /\ report.outcome = "ok") =>
         StatusOf(report.kind, report.id, t) = SettledLabel(report.kind)
    /\ (report.op = "unsettle" /\ report.outcome = "ok"
          /\ Exists(report.kind, report.id)) =>
         /\ StatusOf(report.kind, report.id, t) \in UnsettledLabels
         /\ StatusOf(report.kind, report.id, t)
              = getStatus(report.kind,
                          [InitialObligation(report.kind, report.id)
                             EXCEPT !.settled = FALSE], t)

\* ------------------------------------------------------------------ C29
\* the handlers of the bulk delete that op s belongs to, s included
SameBatch(s) ==
  {t \in InFlight : ops[t].bulk # NoBulk /\ ops[t].began = ops[s].began}

\* C29: the deletions of a confirmed bulk delete run one after another, the
\* selection is still there while one of them is in progress, and after one of
\* them has failed none of the others is in progress.
C29_BulkDeleteSequential ==
  /\ \A s \in InFlight : ops[s].bulk # NoBulk => SameBatch(s) = {s}
  /\ \A s \in InFlight :
       (ops[s].bulk # NoBulk /\ ops[s].began = now) => selectedIds # <<>>
  /\ (report.bulk # NoBulk /\ report.outcome = "error") =>
       \A t \in InFlight : ~(ops[t].bulk # NoBulk /\ ops[t].began = report.began)

\* ------------------------------------------------------------------ C30
\* the ledger without the entries linked to the obligations `ids` of `kind`
Unselected(txs, kind, ids) ==
  SelectSeq(txs, LAMBDA t : ~(t.sourceType = kind /\ t.sourceId \in ids))

\* op s is the last handler in progress of a bulk delete that was confirmed,
\* with every single confirm accepted, on exactly the rows of the list
LastOfWholeBatch(s) ==
  /\ ops[s].bulk # NoBulk
  /\ SameBatch(s) = {s}
  /\ Range(ops[s].bulk.ids) = Range(ops[s].bulk.view)
  /\ ops[s].bulk.confirmed = Range(ops[s].bulk.ids)

\* C30: a bulk delete confirmed on all rows of the filtered view leaves, in
\* each of its steps, every obligation outside the selection and every ledger
\* entry not linked to a selected obligation as it was; when its last deletion
\* completes and no store call has failed, none of the selected obligations
\* exists and no ledger entry is linked to one that was settled; the selection
\* is empty once the bulk delete is confirmed.
C30_BulkDeleteRemovesSelection ==
  [][/\ \A s \in Slots :
       (ops[s].bulk # NoBulk /\ ops[s].pc # "idle" /\ ops'[s] # ops[s])
       => /\ \A k \in Kinds : \A i \in DOMAIN obligations[k] :
               (k # ops[s].kind \/ i \notin Range(ops[s].bulk.ids))
               => /\ i \in DOMAIN obligations'[k]
                  /\ obligations'[k][i] = obligations[k][i]
          /\ Unselected(transactions', ops[s].kind, Range(ops[s].bulk.ids))
               = Unselected(transactions, ops[s].kind, Range(ops[s].bulk.ids))
          /\ (LastOfWholeBatch(s) /\ ops'[s] = IdleOp /\ failures' = 0)
               => /\ \A i \in Range(ops[s].bulk.ids) :
                       /\ i \notin DOMAIN obligations'[ops[s].kind]
                       /\ i \in ops[s].bulk.settled
                            => Linked(transactions', ops[s].kind, i) = {}
     /\ \A confirmed \in SUBSET Ids :
          handleDeleteSelected(confirmed) => selectedIds' = <<>>
    ]_vars

\* ------------------------------------------------------------------ C22
\* the cell of the table that the filter `key` is about
RenderedField(kind, o, key, todayDate) ==
  CASE key = "counterparty" -> getCounterpartyName(kind, o.counterpartyId)
    [] key = "category" -> getCategoryName(o.categoryId)
    [] key = "value" -> formatCurrency(o.value)
    [] key = "dueDate" -> formatDate(o.dueDate)
    [] key = "status" -> StatusText(getStatus(kind, o, todayDate))
    [] OTHER -> TypeLabel(o.installmentType)

\* C22: a record is in the view if and only if every filter text that is not
\* empty is a substring, whatever the case of the letters, of the record's
\* cell for that filter as the table renders it.
C22_FilterOnRenderedFields ==
  \A i \in DOMAIN obligations[listKind] :
    i \in Range(ViewIds)
    <=> \A key \in FilterKeys :
          filters[key] # <<>>
          => includes(toLowerCase(RenderedField(listKind, obligations[listKind][i],
                                                key, today)),
                      toLowerCase(filters[key]))

\* ------------------------------------------------------------------ C23
\* the records of the list whose derived status has one of the labels
WithStatus(labels) ==
  {i \in DOMAIN obligations[listKind] :
     getStatus(listKind, obligations[listKind][i], today) \in labels}

\* C23 as stated: with the status filter "venc" and no other filter, the view
\* holds exactly the records whose derived status is Overdue.
C23_StatusFilterSelectsStatus ==
  filters = [NoFilters EXCEPT !.status = <<"v", "e", "n", "c">>]
  => Range(ViewIds) = WithStatus({"Vencido"})

\* C23 as amended: with no other filter, the status filter "venc" returns the
\* Overdue and the DueSoon records, whose labels 'Vencido' and 'Vence em
\* breve' both contain it, and the status filter "vencido", which only the
\* label of Overdue contains, returns exactly the Overdue records.
C23_StatusFilterSelectsLabels ==
  /\ filters = [NoFilters EXCEPT !.status = <<"v", "e", "n", "c">>]
     => Range(ViewIds) = WithStatus({"Vencido", "Vence em breve"})
  /\ filters = [NoFilters EXCEPT !.status = <<"v", "e", "n", "c", "i", "d", "o">>]
     => Range(ViewIds) = WithStatus({"Vencido"})

\* an Overdue, a DueSoon and a Pending record under the status filter "vencido"
C23_Witness ==
  /\ filters = [NoFilters EXCEPT !.status = <<"v", "e", "n", "c", "i", "d", "o">>]
  /\ WithStatus({"Vencido"}) # {}
  /\ WithStatus({"Vence em breve"}) # {}
  /\ WithStatus({"Pendente"}) # {}
  /\ Len(ViewIds) = 1

\* ------------------------------------------------------------------ C26
Reverse(seq) == [n \in 1..Len(seq) |-> seq[Len(seq) + 1 - n]]

\* the view of the state's collection and filters sorted by value
ByValue(direction) == View(listKind, obligations, filters, "value", direction, today)

ValuesOf(records) == [n \in 1..Len(records) |-> records[n].value]

\* C26 as stated: for the collection and the filters of every state, the view
\* sorted by value descending is the view sorted by value ascending read
\* backwards, also when records have equal values.
C26_DescIsReverseOfAsc ==
  ByValue("desc") = Reverse(ByValue("asc"))

\* C26 as amended: the values of the descending view are the values of the
\* ascending view read backwards, records of equal value stand in the order of
\* the array in both views, and so the descending view is the reverse of the
\* ascending one when no two of its records have equal values.
C26_DescIsReverseUpToTies ==
  LET asc == ByValue("asc")
      desc == ByValue("desc")
      TiesInArrayOrder(view) ==
        \A m, n \in 1..Len(view) :
          (m < n /\ view[m].value = view[n].value) => view[m].id < view[n].id
  IN /\ ValuesOf(desc) = Reverse(ValuesOf(asc))
     /\ TiesInArrayOrder(asc)
     /\ TiesInArrayOrder(desc)
     /\ (\A m, n \in 1..Len(asc) : m # n => asc[m].value # asc[n].value)
        => desc = Reverse(asc)

\* the list sorted by value descending with two records of equal value and
\* one of another value in the view
C26_Witness ==
  /\ sortField = "value"
  /\ sortDirection = "desc"
  /\ ViewIds = <<2, 1, 3>>

\* ------------------------------------------------------------------ C27
\* C27: toggleAll clears the selection when every row of the view is selected,
\* and otherwise makes the selection exactly the ids of the rows of the view.
C27_ToggleAllOnFilteredSet ==
  [][handleSelectAll =>
       IF Range(ViewIds) \subseteq Range(selectedIds)
       THEN selectedIds' = <<>>
       ELSE /\ Range(selectedIds') = Range(ViewIds)
            /\ Len(selectedIds') = Len(ViewIds)
    ]_vars

\* ------------------------------------------------------------------ C24
\* the order of two records by the sort key the claim names: the difference of
\* the due dates or of the values, the display names compared as texts
KeyOrder(kind, field, a, b) ==
  CASE field = "dueDate" -> a.dueDate - b.dueDate
    [] field = "value" -> a.value - b.value
    [] field = "counterparty"
         -> localeCompare(getCounterpartyName(kind, a.counterpartyId),
                          getCounterpartyName(kind, b.counterpartyId))
    [] OTHER -> localeCompare(getCategoryName(a.categoryId),
                              getCategoryName(b.categoryId))

\* C24: the view holds exactly the records that pass the filters, each once,
\* and the sort key of every adjacent pair does not decrease when the
\* direction is asc and does not increase when it is desc.
C24_ViewIsSortedPermutation ==
  LET view == filteredAndSortedPayables
      passing == Filtered(listKind, obligations, filters, today)
  IN /\ Len(view) = Len(passing)
     /\ Range(view) = Range(passing)
     /\ \A n \in 1..(Len(view) - 1) :
          IF sortDirection = "asc"
          THEN KeyOrder(listKind, sortField, view[n], view[n + 1]) <= 0
          ELSE KeyOrder(listKind, sortField, view[n], view[n + 1]) >= 0

\* the three records sorted by the name of the counterparty, which is not the
\* order of the array
C24_Witness ==
  /\ sortField = "counterparty"
  /\ sortDirection = "asc"
  /\ filters = NoFilters
  /\ ViewIds = <<2, 3, 1>>

\* ------------------------------------------------------------------ C25
\* C25: the list starts sorted by dueDate ascending; a click on the header of
\* the sort field flips the direction and keeps the field, a click on another
\* header makes it the sort field with the direction asc.
C25_SortToggle ==
  /\ sortField = "dueDate" /\ sortDirection = "asc"
  /\ [][\A field \in SortFields :
          handleSort(field)
          => IF field = sortField
             THEN /\ sortField' = sortField
                  /\ sortDirection' # sortDirection
                  /\ sortDirection' \in {"asc", "desc"}
             ELSE /\ sortField' = field
                  /\ sortDirection' = "asc"
      ]_vars

\* another field than the initial one has been clicked twice
C25_Witness ==
  /\ sortField = "value"
  /\ sortDirection = "desc"

\* ------------------------------------------------------------------ C28
\* C28: a step that changes a filter text, the sort field or the sort
\* direction leaves selectedIds as it was.
C28_SelectionSurvivesFilterAndSort ==
  [][(filters' # filters \/ sortField' # sortField \/ sortDirection' # sortDirection)
       => selectedIds' = selectedIds
    ]_vars

\* a filter hides a row that is selected
C28_Witness ==
  /\ filters # NoFilters
  /\ \E id \in Range(selectedIds) : id \notin Range(ViewIds)

\* ------------------------------------------------------------------ C31
\* the handlers in two slots work on the same obligation
SameObligation(s, t) == ops[s].kind = ops[t].kind /\ ops[s].id = ops[t].id

CreateStages == {"settle_update", "settle_add", "confirm_update", "confirm_add"}

\* C31: no two operations on the same obligation are awaiting a store call at
\* the same time; in particular no two Settles of one obligation are both on
\* the branch that creates the ledger entry.
C31_OneOperationPerObligation ==
  /\ \A s, t \in InFlight : s # t => ~SameObligation(s, t)
  /\ \A s, t \in InFlight :
       (s # t /\ SameObligation(s, t) /\ ops[s].op = "settle" /\ ops[t].op = "settle")
       => ~(ops[s].pc \in CreateStages /\ ops[t].pc \in CreateStages)

\* ------------------------------------------------------------------ C32
UpdateStages == {"settle_update", "settle_update_only", "confirm_update"}

\* the ledger entries a Settle of `kind`, `id` that read the clock at `date`
\* has created: every user event moves the clock, so no two handlers read
\* the same instant
CreatedBy(txs, kind, id, date) ==
  {n \in 1..Len(txs) : /\ txs[n].sourceType = kind
                       /\ txs[n].sourceId = id
                       /\ txs[n].paymentDate = date}

\* C32: a Settle that awaits its obligation update has created no ledger
\* entry; a Settle that ended in a failed store call has created none either;
\* and the failure of the obligation update leaves both stores as they were.
C32_UpdateBeforeEntry ==
  /\ [](\A s \in InFlight :
          (ops[s].op = "settle" /\ ops[s].pc \in UpdateStages)
          => CreatedBy(transactions, ops[s].kind, ops[s].id, ops[s].date) = {})
  /\ []((report.op = "settle" /\ report.outcome = "error")
        => CreatedBy(transactions, report.kind, report.id, report.date) = {})
  /\ [][\A s \in Slots :
          (ops[s].op = "settle" /\ ops[s].pc \in UpdateStages /\ StoreCallFails(s))
          => (obligations' = obligations /\ transactions' = transactions)
      ]_vars

\* a Settle whose obligation update has failed: the obligation is unsettled
\* and has no ledger entry
C32_Witness ==
  /\ report.op = "settle" /\ report.outcome = "error"
  /\ report.stage \in UpdateStages
  /\ ~GetObligation(obligations, report.kind, report.id).settled
  /\ Linked(transactions, report.kind, report.id) = {}

\* ------------------------------------------------------------------ C33
\* C33: the submit of the edit form leaves the settled flag and the settled
\* date of the edited obligation as they are stored, and leaves the ledger as
\* it is.
C33_EditKeepsSettlement ==
  [][\A value \in Values : \A accountId \in AccountOpts :
       handleSubmit(value, accountId)
       => LET before == GetObligation(obligations, "receivable", editingReceivable.id)
              after == GetObligation(obligations', "receivable", editingReceivable.id)
          IN /\ after.settled = before.settled
             /\ after.settledDate = before.settledDate
             /\ transactions' = transactions
    ]_vars

\* ------------------------------------------------------------------ C34
\* C34: with no operation in progress, every ledger entry linked to an
\* existing settled obligation has the value, the counterparty and the
\* category of that obligation.
C34_EntryMirrorsObligation ==
  Quiescent
  => \A k \in Kinds : \A id \in DOMAIN obligations[k] :
       obligations[k][id].settled
       => \A n \in Linked(transactions, k, id) :
            /\ transactions[n].value = obligations[k][id].value
            /\ transactions[n].clientSupplierId = obligations[k][id].counterpartyId
            /\ transactions[n].categoryId = obligations[k][id].categoryId

\* ------------------------------------------------------------------ C35
\* C35: with no operation in progress, every settled obligation has an
\* accountId and every ledger entry linked to it has the same accountId.
C35_SettledHasAccount ==
  Quiescent
  => \A k \in Kinds : \A id \in DOMAIN obligations[k] :
       obligations[k][id].settled
       => /\ obligations[k][id].accountId # NoAccount
          /\ \A n \in Linked(transactions, k, id) :
               transactions[n].accountId = obligations[k][id].accountId

\* ------------------------------------------------------------------ C38
\* C38: a DeleteObligation invoked on an obligation whose settled flag is
\* false never awaits a ledger deletion, none of its steps changes the
\* ledger, and its store call deletes that obligation and nothing else.
C38_UnsettledDeleteSparesLedger ==
  /\ [](\A s \in InFlight :
          (ops[s].op = "delete" /\ ~ops[s].arg.settled) => ops[s].pc = "delete_obl")
  /\ [][\A s \in Slots :
          (/\ ops[s].op = "delete" /\ ~ops[s].arg.settled
           /\ (DeleteTx(s) \/ DeleteObl(s) \/ StoreCallFails(s)))
          => /\ transactions' = transactions
             /\ obligations' \in {obligations,
                                  deleteObligation(obligations, ops[s].kind, ops[s].id)}
      ]_vars

\* an unsettled obligation that had a ledger entry linked to it has been
\* deleted: the entry is still in the ledger
C38_Witness ==
  /\ report.op = "delete" /\ report.outcome = "ok"
  /\ report.arg # NoObl /\ ~report.arg.settled
  /\ ~Exists(report.kind, report.id)
  /\ Linked(transactions, report.kind, report.id) # {}
  /\ Linked(report.txs, report.kind, report.id) # {}

\* ------------------------------------------------------------------ C36
\* the handler in slot s was started by a bulk delete and its store call
\* deletes an obligation
BulkDeletes(s) ==
  /\ ops[s].bulk # NoBulk
  /\ Exists(ops[s].kind, ops[s].id)
  /\ DeleteObl(s)

\* C36 as stated: every obligation a bulk delete deletes was a row of the
\* filtered view when the bulk delete was confirmed.
C36_BulkDeletesVisibleOnly ==
  [][\A s \in Slots : BulkDeletes(s) => ops[s].id \in Range(ops[s].bulk.view)]_vars

\* C36 as amended: every obligation a bulk delete deletes was selected when
\* the bulk delete was confirmed, and its own confirmation was accepted,
\* whether or not the filters showed its row.
C36_BulkDeletesSelectedOnly ==
  [][\A s \in Slots :
       BulkDeletes(s) => /\ ops[s].id \in Range(ops[s].bulk.ids)
                         /\ ops[s].id \in ops[s].bulk.confirmed
    ]_vars

\* a bulk delete has deleted an obligation that was selected and that the
\* filters hid when it was confirmed
C36_Witness ==
  /\ report.op = "delete" /\ report.outcome = "ok"
  /\ report.bulk # NoBulk
  /\ report.id \in Range(report.bulk.ids)
  /\ report.id \notin Range(report.bulk.view)
  /\ report.arg # NoObl
  /\ ~Exists(report.kind, report.id)

\* ------------------------------------------------------------------ C37
\* C37: selectedIds holds no id twice and only ids of obligations that are in
\* the collection of the list.
C37_SelectionIsLive ==
  /\ \A m, n \in 1..Len(selectedIds) : m # n => selectedIds[m] # selectedIds[n]
  /\ Range(selectedIds) \subseteq DOMAIN obligations[listKind]

====
